---- MODULE Spec2Model ----
(***************************************************************************)
(* Model of the two administrative scripts of the repository:              *)
(*   scripts/update-builder-agent.py  (the reconciliation procedure)       *)
(*   scripts/create-readme-agent.py   (the creation procedure)             *)
(* A Python dict is a function from its keys (strings) to its values; a    *)
(* Python list is a sequence.  One action is one HTTP exchange of a script *)
(* together with the local computation that leads to it or follows it.     *)
(***************************************************************************)
EXTENDS Integers, Sequences, FiniteSets, TLC

(* ----------------------------- bounds ---------------------------------- *)

\* Longest feature list a fetched config carries.
MaxFeatures == 2

\* Number of times the creation script is invoked.
MaxInvocations == 2

(* ------------------------- Python dict helpers ------------------------- *)

\* The empty dict {}.
EmptyDict == [k \in {} |-> ""]

\* None, as f.get("type") returns it for an entry without that key.
None == "<None>"

\* d.get(k, default)
Get(d, k, default) == IF k \in DOMAIN d THEN d[k] ELSE default

\* d[k] = v
DictSet(d, k, v) == [x \in (DOMAIN d) \cup {k} |-> IF x = k THEN v ELSE d[x]]

(* --------------- update-builder-agent.py: configuration ---------------- *)

AGENT_ID == "695aad9ba45696ac999e18cf"

MESSAGE_COUNT == 20

SHORT_TERM_MEMORY_CONFIG ==
    [type |-> "SHORT_TERM_MEMORY",
     config |-> [message_count |-> MESSAGE_COUNT],
     priority |-> 0]

\* The tuple of memory-related feature types tested at line 65.
MemoryTypes == {"memory", "SHORT_TERM_MEMORY", "STRUCTURED_MEMORY"}

readonly_fields == {"_id", "created_at", "updated_at", "api_key", "version"}

json_object == [type |-> "json_object"]

(* --------------- update-builder-agent.py: pure functions --------------- *)

\* The list comprehension of line 65: the entries whose type is not
\* memory-related, in their order.
WithoutMemoryAppendOnly(features) == features
WithoutMemoryOnlyShortTerm(features) ==
    SelectSeq(features, LAMBDA f : Get(f, "type", None) # "SHORT_TERM_MEMORY")
WithoutMemory(features) ==
    SelectSeq(features, LAMBDA f : Get(f, "type", None) \notin MemoryTypes)

\* ensure_short_term_memory(features): filter, then append the fixed entry.
ensure_prepend(features) == <<SHORT_TERM_MEMORY_CONFIG>> \o WithoutMemory(features)
ensure_short_term_memory(features) ==
    Append(WithoutMemory(features), SHORT_TERM_MEMORY_CONFIG)

\* Line 96: the fetched config without the read-only fields.
StripKeepsVersion(current) ==
    [k \in (DOMAIN current) \ (readonly_fields \ {"version"}) |-> current[k]]
StripReadonly(current) ==
    [k \in (DOMAIN current) \ readonly_fields |-> current[k]]

\* Line 102: the instructions written to the payload.
KeepRemoteInstructions(payload, system_prompt) ==
    Get(payload, "agent_instructions", system_prompt)
NewInstructions(payload, system_prompt) == system_prompt

\* Lines 95-105 of main: the payload of the PUT request.
BuildPayload(current, system_prompt) ==
    LET p0 == StripReadonly(current)
        p1 == DictSet(p0, "response_format", json_object)
        p2 == DictSet(p1, "agent_instructions", NewInstructions(p1, system_prompt))
    IN  DictSet(p2, "features", ensure_short_term_memory(Get(p2, "features", <<>>)))

\* Lines 122-134 of main: the two verification checks.
FormatCheck(updated) ==
    Get(Get(updated, "response_format", EmptyDict), "type", None) = "json_object"

MemoryCheck(updated) ==
    \E i \in 1..Len(Get(updated, "features", <<>>)) :
        Get(Get(updated, "features", <<>>)[i], "type", None) = "SHORT_TERM_MEMORY"

VerifySuccess(updated) == FormatCheck(updated) /\ MemoryCheck(updated)

(* ------------------- the declarative YAML file ------------------------- *)

\* load_system_prompt_from_yaml applied to the file on disk.  The result is
\* [ok |-> TRUE, text |-> instructions] or [ok |-> FALSE, error |-> exception].
load_rejects_only_absent(file) ==
    IF ~file.exists
    THEN [ok |-> FALSE, error |-> "FileNotFoundError"]
    ELSE IF ~file.mapping
    THEN [ok |-> FALSE, error |-> "AttributeError"]
    ELSE IF "instructions" \notin DOMAIN Get(file.data, "spec", EmptyDict)
    THEN [ok |-> FALSE, error |-> "ValueError"]
    ELSE [ok |-> TRUE, text |-> file.data["spec"]["instructions"]]
load_system_prompt_from_yaml(file) ==
    IF ~file.exists
    THEN [ok |-> FALSE, error |-> "FileNotFoundError"]
    ELSE IF ~file.mapping
    THEN [ok |-> FALSE, error |-> "AttributeError"]
    ELSE LET instructions ==
                 Get(Get(file.data, "spec", EmptyDict), "instructions", "")
         IN  IF instructions = ""
             THEN [ok |-> FALSE, error |-> "ValueError"]
             ELSE [ok |-> TRUE, text |-> instructions]

InstructionTexts == {"Hello.", "Be brief."}

\* The states the file at YAML_PATH can be in: missing, an empty document
\* (yaml.safe_load gives None), or a mapping with or without spec.instructions.
YamlFiles ==
    {[exists |-> FALSE, mapping |-> FALSE, data |-> EmptyDict],
     [exists |-> TRUE, mapping |-> FALSE, data |-> EmptyDict],
     [exists |-> TRUE, mapping |-> TRUE, data |-> EmptyDict],
     [exists |-> TRUE, mapping |-> TRUE, data |-> [spec |-> EmptyDict]],
     [exists |-> TRUE, mapping |-> TRUE, data |-> [spec |-> [instructions |-> ""]]]}
    \cup {[exists |-> TRUE, mapping |-> TRUE, data |-> [spec |-> [instructions |-> t]]]
          : t \in InstructionTexts}

(* ------------------- the configs the server can hold ------------------- *)

\* Feature entries: two unrelated ones (one of them without a type key), and
\* memory-related ones of each of the three types; the short-term one occurs
\* as the fixed entry and with another priority.
FeatureEntries ==
    {[type |-> "KNOWLEDGE_BASE", config |-> [message_count |-> 0], priority |-> 0],
     [config |-> [message_count |-> 0], priority |-> 1],
     [type |-> "memory", config |-> [message_count |-> 10], priority |-> 0],
     SHORT_TERM_MEMORY_CONFIG,
     [type |-> "SHORT_TERM_MEMORY", config |-> [message_count |-> MESSAGE_COUNT], priority |-> 1],
     [type |-> "STRUCTURED_MEMORY", config |-> [message_count |-> 0], priority |-> 1]}

FeatureLists == UNION {[1..n -> FeatureEntries] : n \in 0..MaxFeatures}

ResponseFormats ==
    {[type |-> "text"], json_object, [type |-> "json_object", schema |-> "s"]}

\* A key that is absent from the config is an empty choice <<>>; a present one
\* is <<value>>.
Optional(S) == {<<>>} \cup {<<v>> : v \in S}

OptionalKeys == {"name", "agent_instructions"}

MkConfig(ro, opt, rf, fs) ==
    [k \in {"model"} \cup ro \cup opt
           \cup (IF rf = <<>> THEN {} ELSE {"response_format"})
           \cup (IF fs = <<>> THEN {} ELSE {"features"}) |->
        CASE k = "response_format" -> rf[1]
          [] k = "features" -> fs[1]
          [] k = "name" -> "Blueprint Builder"
          [] k = "agent_instructions" -> "Old."
          [] k = "_id" -> AGENT_ID
          [] OTHER -> "v0"]

Configs ==
    {MkConfig(ro, opt, rf, fs) :
        ro \in SUBSET readonly_fields, opt \in SUBSET OptionalKeys,
        rf \in Optional(ResponseFormats), fs \in Optional(FeatureLists)}

(* ------------------------------ state ---------------------------------- *)

VARIABLES
    yaml,           \* the file at YAML_PATH
    stored,         \* the agent resource held by the server
    requests,       \* HTTP requests issued so far, in order
    pc,             \* per run of the update script: position in main
    system_prompt,  \* per run: main's system_prompt
    current,        \* per run: main's current
    payload,        \* per run: main's payload
    updated,        \* per run: main's updated
    success,        \* per run: main's success
    exit_code,      \* per run: process exit status
    create_env,     \* per invocation of the create script: LYZR_API_KEY
    create_pc,      \* per invocation: position in the script
    create_exit,    \* per invocation: process exit status
    agent_id,       \* per invocation: create_agent's agent_id
    posts,          \* POST requests issued so far, in order
    agents          \* number of agents the server has created

update_vars == <<yaml, stored, requests, pc, system_prompt, current, payload,
                 updated, success, exit_code>>

create_vars == <<create_env, create_pc, create_exit, agent_id, posts, agents>>

vars == <<update_vars, create_vars>>

\* The runs of the update script are the elements of DOMAIN pc.
Runs == DOMAIN pc

\* The server's resource before any run has read it.
Unknown == [unfetched |-> "yes"]

\* A local of main that is not bound yet.
Unbound == [unbound |-> "yes"]

\* Statuses the server answers with.
StatusCodes == {200, 301, 404, 500}

\* response.is_success, which raise_for_status tests.
is_success(status) == status \in 200..299

\* raise_for_status raises for every response that is not a success.
raises_from_400(status) == status >= 400
raise_for_status(status) == ~is_success(status)

\* The server keeps its own bookkeeping fields and takes the rest of the
\* resource from the body of a PUT.
ServerStore(old, body) ==
    [k \in (DOMAIN body) \cup ((DOMAIN old) \cap readonly_fields) |->
        IF k \in DOMAIN body THEN body[k] ELSE old[k]]

InitRun(ids) ==
    /\ requests = <<>>
    /\ pc = [r \in ids |-> "load"]
    /\ system_prompt = [r \in ids |-> ""]
    /\ current = [r \in ids |-> Unbound]
    /\ payload = [r \in ids |-> Unbound]
    /\ updated = [r \in ids |-> Unbound]
    /\ success = [r \in ids |-> TRUE]
    /\ exit_code = [r \in ids |-> -1]

\* The create script has not been invoked.
NoCreate ==
    /\ create_env = <<>>
    /\ create_pc = <<>>
    /\ create_exit = <<>>
    /\ agent_id = <<>>
    /\ posts = <<>>
    /\ agents = 0

\* One run of the update script, against a resource nobody has read yet.
Init ==
    /\ yaml \in YamlFiles
    /\ stored = Unknown
    /\ InitRun({1})
    /\ NoCreate

\* An uncaught exception ends the process with status 1.
Crash(r) ==
    /\ pc' = [pc EXCEPT ![r] = "crashed"]
    /\ exit_code' = [exit_code EXCEPT ![r] = 1]

\* One HTTP exchange: who issued it, the method, the JSON body sent and the
\* status of the response.
Request(r, method, body, status) ==
    [run |-> r, method |-> method, body |-> body, status |-> status]

(* --------------------- main, lines 80-84: load ------------------------- *)

LoadFails(r) ==
    /\ pc[r] = "load"
    /\ ~load_system_prompt_from_yaml(yaml).ok
    /\ Crash(r)
    /\ UNCHANGED <<create_vars, yaml, stored, requests, system_prompt, current, payload,
                   updated, success>>

LoadOk(r) ==
    /\ pc[r] = "load"
    /\ load_system_prompt_from_yaml(yaml).ok
    /\ system_prompt' =
           [system_prompt EXCEPT ![r] = load_system_prompt_from_yaml(yaml).text]
    /\ pc' = [pc EXCEPT ![r] = "fetch"]
    /\ UNCHANGED <<create_vars, yaml, stored, requests, current, payload, updated, success,
                   exit_code>>

(* --------------------- main, lines 86-91: fetch ------------------------ *)

\* What a successful GET can return: the resource, which is any config when
\* nobody has read it yet.
Readable == IF stored = Unknown THEN Configs ELSE {stored}

FetchFails(r) ==
    /\ pc[r] = "fetch"
    /\ \E status \in StatusCodes :
        /\ raise_for_status(status)
        /\ requests' = Append(requests, Request(r, "GET", EmptyDict, status))
    /\ Crash(r)
    /\ UNCHANGED <<create_vars, yaml, stored, system_prompt, current, payload, updated, success>>

\* The GET succeeds; line 89 raises KeyError when the config has no name.
FetchOk(r) ==
    /\ pc[r] = "fetch"
    /\ \E status \in StatusCodes :
        /\ ~raise_for_status(status)
        /\ requests' = Append(requests, Request(r, "GET", EmptyDict, status))
    /\ \E c \in Readable :
        /\ stored' = c
        /\ current' = [current EXCEPT ![r] = c]
        /\ IF "name" \in DOMAIN c
           THEN pc' = [pc EXCEPT ![r] = "update"] /\ UNCHANGED exit_code
           ELSE Crash(r)
    /\ UNCHANGED <<create_vars, yaml, system_prompt, payload, updated, success>>

(* -------------------- main, lines 93-114: update ----------------------- *)

UpdateFails(r) ==
    /\ pc[r] = "update"
    /\ payload' = [payload EXCEPT ![r] = BuildPayload(current[r], system_prompt[r])]
    /\ \E status \in StatusCodes :
        /\ raise_for_status(status)
        /\ requests' = Append(requests, Request(r, "PUT", payload'[r], status))
    /\ Crash(r)
    /\ UNCHANGED <<create_vars, yaml, stored, system_prompt, current, updated, success>>

\* The PUT succeeds and the server stores its body.
UpdateOk(r) ==
    /\ pc[r] = "update"
    /\ payload' = [payload EXCEPT ![r] = BuildPayload(current[r], system_prompt[r])]
    /\ \E status \in StatusCodes :
        /\ ~raise_for_status(status)
        /\ requests' = Append(requests, Request(r, "PUT", payload'[r], status))
    /\ stored' = ServerStore(stored, payload'[r])
    /\ pc' = [pc EXCEPT ![r] = "verify"]
    /\ UNCHANGED <<create_vars, yaml, system_prompt, current, updated, success, exit_code>>

\* The PUT is answered with a success status, but the server leaves the
\* resource as it was.
UpdateNotApplied(r) ==
    /\ pc[r] = "update"
    /\ payload' = [payload EXCEPT ![r] = BuildPayload(current[r], system_prompt[r])]
    /\ \E status \in StatusCodes :
        /\ ~raise_for_status(status)
        /\ requests' = Append(requests, Request(r, "PUT", payload'[r], status))
    /\ pc' = [pc EXCEPT ![r] = "verify"]
    /\ UNCHANGED <<create_vars, yaml, stored, system_prompt, current, updated, success, exit_code>>

(* -------------------- main, lines 116-139: verify ---------------------- *)

VerifyFails(r) ==
    /\ pc[r] = "verify"
    /\ \E status \in StatusCodes :
        /\ raise_for_status(status)
        /\ requests' = Append(requests, Request(r, "GET", EmptyDict, status))
    /\ Crash(r)
    /\ UNCHANGED <<create_vars, yaml, stored, system_prompt, current, payload, updated, success>>

\* main returns after the checks, whatever success is: the process exits 0.
ExitAfterVerifyByFlag(ok) == IF ok THEN 0 ELSE 1
ExitAfterVerify(ok) == 0

VerifyOkRetry(r) ==
    /\ pc[r] = "verify"
    /\ \E status \in StatusCodes :
        /\ ~raise_for_status(status)
        /\ requests' = Append(requests, Request(r, "GET", EmptyDict, status))
    /\ updated' = [updated EXCEPT ![r] = stored]
    /\ success' = [success EXCEPT ![r] = VerifySuccess(stored)]
    /\ pc' = [pc EXCEPT ![r] = IF success'[r] THEN "done" ELSE "update"]
    /\ exit_code' = [exit_code EXCEPT ![r] = IF success'[r] THEN 0 ELSE @]
    /\ UNCHANGED <<create_vars, yaml, stored, system_prompt, current, payload>>
VerifyOk(r) ==
    /\ pc[r] = "verify"
    /\ \E status \in StatusCodes :
        /\ ~raise_for_status(status)
        /\ requests' = Append(requests, Request(r, "GET", EmptyDict, status))
    /\ updated' = [updated EXCEPT ![r] = stored]
    /\ success' = [success EXCEPT ![r] = VerifySuccess(stored)]
    /\ pc' = [pc EXCEPT ![r] = "done"]
    /\ exit_code' = [exit_code EXCEPT ![r] = ExitAfterVerify(success'[r])]
    /\ UNCHANGED <<create_vars, yaml, stored, system_prompt, current, payload>>

Next ==
    \/ \E r \in Runs : LoadFails(r)
    \/ \E r \in Runs : LoadOk(r)
    \/ \E r \in Runs : FetchFails(r)
    \/ \E r \in Runs : FetchOk(r)
    \/ \E r \in Runs : UpdateFails(r)
    \/ \E r \in Runs : UpdateOk(r)
    \/ \E r \in Runs : UpdateNotApplied(r)
    \/ \E r \in Runs : VerifyFails(r)
    \/ \E r \in Runs : VerifyOk(r)

Spec == Init /\ [][Next]_vars

(* ------------- two concurrent runs of the update script ---------------- *)

\* The configs of a server that returns an agent with its name, its
\* instructions and all the bookkeeping fields.
RaceConfigs ==
    {c \in Configs : readonly_fields \cup OptionalKeys \subseteq DOMAIN c}

\* Two runs of the update script, started against the same resource and the
\* same file.
InitRace ==
    /\ yaml \in YamlFiles
    /\ stored \in RaceConfigs
    /\ InitRun({1, 2})
    /\ NoCreate

\* The server stores the body of every PUT it answers with a success.
NextRace ==
    \/ \E r \in Runs : LoadFails(r)
    \/ \E r \in Runs : LoadOk(r)
    \/ \E r \in Runs : FetchFails(r)
    \/ \E r \in Runs : FetchOk(r)
    \/ \E r \in Runs : UpdateFails(r)
    \/ \E r \in Runs : UpdateOk(r)
    \/ \E r \in Runs : VerifyFails(r)
    \/ \E r \in Runs : VerifyOk(r)

SpecRace == InitRace /\ [][NextRace]_vars

(* ----------------------- create-readme-agent.py ------------------------ *)

\* os.getenv("LYZR_API_KEY"): unset (None), or the value set.
Environments ==
    {[set |-> FALSE, value |-> ""], [set |-> TRUE, value |-> ""],
     [set |-> TRUE, value |-> "sk-1"], [set |-> TRUE, value |-> "sk-2"]}

\* Line 15, "not API_KEY": None and the empty string are falsy.
OnlyUnset(key) == ~key.set
not_API_KEY(key) == ~key.set \/ key.value = ""

\* Statuses the creation endpoint answers with.
CreateStatusCodes == {200, 201, 404, 500}

\* Line 123: every status but 200 is an error.
NotOkFrom400(status) == status >= 400
status_not_200(status) == status # 200

\* result.get("agent_id") for the bodies a 200 response can carry.
AgentIds == {None, "agent-1"}

Invocations == DOMAIN create_pc

InitCreate ==
    /\ yaml \in {f \in YamlFiles : ~f.exists}
    /\ stored = Unknown
    /\ InitRun({})
    /\ \E env \in Environments : create_env = <<env>>
    /\ create_pc = <<"start">>
    /\ create_exit = <<-1>>
    /\ agent_id = <<None>>
    /\ posts = <<>>
    /\ agents = 0

\* The script is started once more, after the previous process has ended.
Invoke ==
    /\ Len(create_pc) \in 1..(MaxInvocations - 1)
    /\ create_pc[Len(create_pc)] = "exited"
    /\ \E env \in Environments : create_env' = Append(create_env, env)
    /\ create_pc' = Append(create_pc, "start")
    /\ create_exit' = Append(create_exit, -1)
    /\ agent_id' = Append(agent_id, None)
    /\ UNCHANGED <<update_vars, posts, agents>>

\* Lines 14-18: no credential, sys.exit(1).
CheckKeyFails(i) ==
    /\ create_pc[i] = "start"
    /\ not_API_KEY(create_env[i])
    /\ create_pc' = [create_pc EXCEPT ![i] = "exited"]
    /\ create_exit' = [create_exit EXCEPT ![i] = 1]
    /\ UNCHANGED <<update_vars, create_env, agent_id, posts, agents>>

\* Lines 14-18, 138-139: the credential is there, create_agent is called.
CheckKeyOk(i) ==
    /\ create_pc[i] = "start"
    /\ ~not_API_KEY(create_env[i])
    /\ create_pc' = [create_pc EXCEPT ![i] = "create_agent"]
    /\ UNCHANGED <<update_vars, create_env, create_exit, agent_id, posts, agents>>

Post(i, status) == [invocation |-> i, key |-> create_env[i].value, status |-> status]

\* Lines 117-126: the POST is answered with another status than 200.  A
\* success status (201) means the server created the agent all the same.
PostRejected(i) ==
    /\ create_pc[i] = "create_agent"
    /\ \E status \in CreateStatusCodes :
        /\ status_not_200(status)
        /\ posts' = Append(posts, Post(i, status))
        /\ agents' = IF is_success(status) THEN agents + 1 ELSE agents
    /\ create_pc' = [create_pc EXCEPT ![i] = "exited"]
    /\ create_exit' = [create_exit EXCEPT ![i] = 1]
    /\ UNCHANGED <<update_vars, create_env, agent_id>>

\* Lines 117-136: the POST is answered with 200; the id is reported.
PostOk(i) ==
    /\ create_pc[i] = "create_agent"
    /\ \E status \in CreateStatusCodes :
        /\ ~status_not_200(status)
        /\ posts' = Append(posts, Post(i, status))
    /\ agents' = agents + 1
    /\ \E id \in AgentIds : agent_id' = [agent_id EXCEPT ![i] = id]
    /\ create_pc' = [create_pc EXCEPT ![i] = "exited"]
    /\ create_exit' = [create_exit EXCEPT ![i] = 0]
    /\ UNCHANGED <<update_vars, create_env>>

NextCreate ==
    \/ Invoke
    \/ \E i \in Invocations : CheckKeyFails(i)
    \/ \E i \in Invocations : CheckKeyOk(i)
    \/ \E i \in Invocations : PostRejected(i)
    \/ \E i \in Invocations : PostOk(i)

SpecCreate == InitCreate /\ [][NextCreate]_vars

(* ======================= the claims, as formulas ======================= *)

\* The memory-related entries of the spec: "memory", the short-term and the
\* structured kind.
IsMemoryEntry(f) ==
    "type" \in DOMAIN f /\ f["type"] \in {"memory", "SHORT_TERM_MEMORY", "STRUCTURED_MEMORY"}

\* The entries of L that are not memory-related, in their order in L.
RECURSIVE NonMemoryEntries(_)
NonMemoryEntries(L) ==
    IF L = <<>> THEN <<>>
    ELSE IF IsMemoryEntry(Head(L)) THEN NonMemoryEntries(Tail(L))
    ELSE <<Head(L)>> \o NonMemoryEntries(Tail(L))

\* The fixed entry of the spec.
FixedEntry ==
    [type |-> "SHORT_TERM_MEMORY", config |-> [message_count |-> 20], priority |-> 0]

\* The feature list a run fetched ([] when the config has none).
FetchedFeatures(r) ==
    IF "features" \in DOMAIN current[r] THEN current[r]["features"] ELSE <<>>

\* The runs that have built a payload, i.e. have issued their PUT.
HasPut(r) == payload[r] # Unbound

\* R is what the feature-merge step must give for the fetched list L.
IsMergeOf(R, L) ==
    /\ Len(R) >= 1
    /\ R[Len(R)] = FixedEntry
    /\ Cardinality({i \in 1..Len(R) : IsMemoryEntry(R[i])}) = 1
    /\ SubSeq(R, 1, Len(R) - 1) = NonMemoryEntries(L)

\* C1: for every fetched feature list L, ensure_short_term_memory(L) has
\* exactly one memory-related entry, the fixed short-term entry, as its last
\* element, preceded by the non-memory entries of L unchanged and in order.
C1_EnsureShortTermMemory ==
    \A r \in Runs :
        HasPut(r) => IsMergeOf(payload[r]["features"], FetchedFeatures(r))

\* A run merged a list that holds a memory-related entry of another kind in
\* front of an unrelated entry.
C1_Witness ==
    \E r \in Runs :
        /\ HasPut(r)
        /\ Len(FetchedFeatures(r)) = 2
        /\ IsMemoryEntry(FetchedFeatures(r)[1])
        /\ FetchedFeatures(r)[1]["type"] = "STRUCTURED_MEMORY"
        /\ ~IsMemoryEntry(FetchedFeatures(r)[2])

\* The PUT requests issued so far.
PutRequests == {i \in 1..Len(requests) : requests[i].method = "PUT"}

ServerOwned == {"_id", "created_at", "updated_at", "api_key", "version"}

\* C2: the payload of every PUT request holds none of the five server-owned
\* keys, whatever subset of them the fetched config holds.
C2_NoServerOwnedKey ==
    \A i \in PutRequests : (DOMAIN requests[i].body) \cap ServerOwned = {}

\* A PUT was issued by a run whose fetched config holds all five keys.
C2_Witness ==
    \E i \in PutRequests : ServerOwned \subseteq DOMAIN current[requests[i].run]

\* The instructions text of the declarative file, "" when the file or the
\* field spec.instructions is missing.
DeclaredInstructions ==
    IF /\ yaml.exists
       /\ yaml.mapping
       /\ "spec" \in DOMAIN yaml.data
       /\ "instructions" \in DOMAIN yaml.data["spec"]
    THEN yaml.data["spec"]["instructions"]
    ELSE ""

\* C3: when the declarative file is missing, or spec.instructions is absent
\* or the empty string, no HTTP request is ever issued and every run ends in
\* an error, with a non-zero exit status.
C3_FailFastOnBadFile ==
    DeclaredInstructions = "" =>
        /\ requests = <<>>
        /\ \A r \in Runs :
            /\ pc[r] \in {"load", "crashed"}
            /\ pc[r] = "crashed" => exit_code[r] = 1

\* A run ended on a file that exists and whose spec.instructions is "".
C3_Witness ==
    /\ yaml.exists
    /\ yaml.mapping
    /\ "spec" \in DOMAIN yaml.data
    /\ "instructions" \in DOMAIN yaml.data["spec"]
    /\ yaml.data["spec"]["instructions"] = ""
    /\ \E r \in Runs : pc[r] = "crashed"

\* Requests answered with a status outside 200..299.
FailedRequests == {i \in 1..Len(requests) : requests[i].status \notin 200..299}

\* C4: once an HTTP call of a run is answered with a non-2xx status, that run
\* issues no further request and ends with a non-zero exit status.
C4_NonSuccessIsFatal ==
    \A i \in FailedRequests :
        /\ \A j \in (i + 1)..Len(requests) : requests[j].run # requests[i].run
        /\ pc[requests[i].run] = "crashed"
        /\ exit_code[requests[i].run] > 0

\* A PUT was answered with a redirect, after a successful fetch.
C4_Witness ==
    \E i \in FailedRequests :
        requests[i].method = "PUT" /\ requests[i].status = 301

\* The three keys the merge step writes.
MergedKeys == {"response_format", "agent_instructions", "features"}

\* C7: the PUT payload P for a fetched config C has the keys of C without the
\* server-owned ones, plus the three merged keys; it equals C on every other
\* key; its response_format is {type: json_object} and its agent_instructions
\* is the text of the declarative file.
C7_NoOtherFieldDisturbed ==
    \A i \in PutRequests :
        LET P == requests[i].body
            C == current[requests[i].run]
        IN  /\ DOMAIN P = ((DOMAIN C) \ ServerOwned) \cup MergedKeys
            /\ \A k \in (DOMAIN P) \ MergedKeys : P[k] = C[k]
            /\ P["response_format"] = [type |-> "json_object"]
            /\ P["agent_instructions"] = DeclaredInstructions

\* A PUT was issued for a config that had other instructions, no feature list
\* and no response_format.
C7_Witness ==
    \E i \in PutRequests :
        LET C == current[requests[i].run]
        IN  /\ "agent_instructions" \in DOMAIN C
            /\ C["agent_instructions"] # DeclaredInstructions
            /\ (DOMAIN C) \cap {"features", "response_format"} = {}
            /\ "model" \in DOMAIN requests[i].body

\* The methods of the requests run r has issued, in order.
RECURSIVE MethodsOf(_, _)
MethodsOf(r, log) ==
    IF log = <<>> THEN <<>>
    ELSE IF Head(log).run = r THEN <<Head(log).method>> \o MethodsOf(r, Tail(log))
    ELSE MethodsOf(r, Tail(log))

\* The requests of run r, in order.
RECURSIVE RequestsOf(_, _)
RequestsOf(r, log) ==
    IF log = <<>> THEN <<>>
    ELSE IF Head(log).run = r THEN <<Head(log)>> \o RequestsOf(r, Tail(log))
    ELSE RequestsOf(r, Tail(log))

IsPrefix(s, t) == Len(s) <= Len(t) /\ s = SubSeq(t, 1, Len(s))

\* C9: the requests of a run are a prefix of GET, PUT, GET; the PUT follows a
\* successful GET; nothing is issued after the verification GET, whatever the
\* verification found.
C9_GetPutGet ==
    \A r \in Runs :
        /\ IsPrefix(MethodsOf(r, requests), <<"GET", "PUT", "GET">>)
        /\ Len(RequestsOf(r, requests)) >= 2 =>
               RequestsOf(r, requests)[1].status \in 200..299

\* A run has ended after a verification that found the format not updated.
C9_Witness ==
    \E r \in Runs :
        /\ pc[r] = "done"
        /\ ~success[r]
        /\ MethodsOf(r, requests) = <<"GET", "PUT", "GET">>

\* The payload is the fetched config without the server-owned keys, but for
\* agent_instructions, which is the text of the declarative file.
RoundTrip(P, C) ==
    /\ DOMAIN P = ((DOMAIN C) \ ServerOwned) \cup {"agent_instructions"}
    /\ \A k \in (DOMAIN P) \ {"agent_instructions"} : P[k] = C[k]
    /\ P["agent_instructions"] = DeclaredInstructions

\* The positions of the memory-related entries of a feature list.
MemoryPositions(L) == {i \in 1..Len(L) : IsMemoryEntry(L[i])}

\* Already reconciled, as the claim words it: the format type is json_object,
\* and the one memory-related entry of the list is a short-term one with
\* message_count 20, wherever it stands.
ReconciledAnywhere(C) ==
    /\ "response_format" \in DOMAIN C
    /\ "type" \in DOMAIN C["response_format"]
    /\ C["response_format"]["type"] = "json_object"
    /\ "features" \in DOMAIN C
    /\ Cardinality(MemoryPositions(C["features"])) = 1
    /\ \A i \in MemoryPositions(C["features"]) :
        /\ C["features"][i]["type"] = "SHORT_TERM_MEMORY"
        /\ C["features"][i]["config"]["message_count"] = 20

\* Already reconciled, exactly: response_format is {type: json_object}, and the
\* one memory-related entry is the fixed entry and is the last of the list.
ReconciledExactly(C) ==
    /\ "response_format" \in DOMAIN C
    /\ C["response_format"] = [type |-> "json_object"]
    /\ "features" \in DOMAIN C
    /\ MemoryPositions(C["features"]) = {Len(C["features"])}
    /\ C["features"][Len(C["features"])] = FixedEntry

\* C5, as stated: merging a config that is already reconciled, with the
\* short-term entry at any position, changes nothing but agent_instructions.
C5_RoundTripAnyPosition ==
    \A i \in PutRequests :
        ReconciledAnywhere(current[requests[i].run]) =>
            RoundTrip(requests[i].body, current[requests[i].run])

\* C5, amended: merging a config whose response_format is exactly
\* {type: json_object} and whose one memory-related entry is the fixed entry,
\* standing last, changes nothing but agent_instructions.
C5_RoundTripFixedEntryLast ==
    \A i \in PutRequests :
        ReconciledExactly(current[requests[i].run]) =>
            RoundTrip(requests[i].body, current[requests[i].run])

\* A PUT was issued for an exactly reconciled config with an unrelated
\* feature in front of the memory entry and with other remote instructions.
C5_Witness ==
    \E i \in PutRequests :
        LET C == current[requests[i].run]
        IN  /\ ReconciledExactly(C)
            /\ Len(C["features"]) = 2
            /\ "agent_instructions" \in DOMAIN C
            /\ C["agent_instructions"] # DeclaredInstructions

\* The two checks of the verification step on a re-fetched config.
BothChecksPass(U) ==
    /\ "response_format" \in DOMAIN U
    /\ "type" \in DOMAIN U["response_format"]
    /\ U["response_format"]["type"] = "json_object"
    /\ "features" \in DOMAIN U
    /\ \E i \in 1..Len(U["features"]) :
        /\ "type" \in DOMAIN U["features"][i]
        /\ U["features"][i]["type"] = "SHORT_TERM_MEMORY"

\* C6: a run that reaches the end of the verification step exits with status
\* 0 exactly when both checks passed on the re-fetched config.
C6_ExitStatusReflectsChecks ==
    \A r \in Runs :
        pc[r] = "done" => (exit_code[r] = 0 <=> BothChecksPass(updated[r]))

\* Number of POST requests of invocation i.
PostsOf(i) == Cardinality({n \in 1..Len(posts) : posts[n].invocation = i})

\* C8: an invocation of the create script whose LYZR_API_KEY is absent or
\* empty issues no POST and exits non-zero; an invocation issues at most one
\* POST, and exits non-zero without another one when the answer is not 200.
C8_CredentialAndSinglePost ==
    \A i \in Invocations :
        /\ (~create_env[i].set \/ create_env[i].value = "") =>
               /\ PostsOf(i) = 0
               /\ create_pc[i] = "exited" => create_exit[i] > 0
        /\ PostsOf(i) <= 1
        /\ \A n \in 1..Len(posts) :
               (posts[n].invocation = i /\ posts[n].status # 200) =>
                   create_pc[i] = "exited" /\ create_exit[i] > 0

\* The script was invoked with an empty credential and has exited, after an
\* earlier invocation whose POST was answered 500.
C8_Witness ==
    /\ Len(create_pc) = 2
    /\ create_env[2].set
    /\ create_env[2].value = ""
    /\ create_pc[2] = "exited"
    /\ Len(posts) = 1
    /\ posts[1].status = 500

\* The config the first request of the log, a successful GET, returned.
FirstFetched == current[requests[1].run]

\* C10: when both of two concurrent runs have run to their end, the stored
\* config has the json_object format, the text of the declarative file as its
\* instructions, and as features the non-memory features of the initial
\* config, unchanged and in order, followed by the fixed entry alone.
C10_RaceConverges ==
    (\A r \in Runs : pc[r] = "done") =>
        /\ stored["response_format"]["type"] = "json_object"
        /\ stored["agent_instructions"] = DeclaredInstructions
        /\ IsMergeOf(stored["features"],
                     IF "features" \in DOMAIN FirstFetched
                     THEN FirstFetched["features"] ELSE <<>>)

\* Both runs have run to their end after both fetched the initial config,
\* which held two memory-related entries, before either wrote.
C10_Witness ==
    /\ \A r \in Runs : pc[r] = "done"
    /\ Cardinality(Runs) = 2
    /\ requests[1].method = "GET"
    /\ requests[2].method = "GET"
    /\ requests[1].run # requests[2].run
    /\ "features" \in DOMAIN FirstFetched
    /\ Cardinality(MemoryPositions(FirstFetched["features"])) = 2

====
